---- MODULE Spec2Model ----
(***************************************************************************)
(* Model of bot/dbhandler.py: the DBHandler row store over one psycopg2    *)
(* connection and one shared cursor.                                       *)
(*                                                                         *)
(* Python values are records [t, v]: t is the Python type, v a sequence.   *)
(* Data strings are sequences of one-character strings so that str(),      *)
(* replace() and LOWER() are computed character by character.  Column      *)
(* names are values of type "name" (they are the dictionary keys).         *)
(***************************************************************************)
EXTENDS Integers, Sequences, FiniteSets

----------------------------------------------------------------------------
(* Bounds of the model *)

MaxRows == 2
MaxCalls == 2

----------------------------------------------------------------------------
(* Python values *)

PyNone == [t |-> "none", v |-> <<>>]
PyInt(n) == [t |-> "int", v |-> <<n>>]
PyStr(s) == [t |-> "str", v |-> s]
PyDict(pairs) == [t |-> "dict", v |-> pairs]
K(name) == [t |-> "name", v |-> <<name>>]

Range(s) == {s[i] : i \in 1..Len(s)}

\* Python truthiness, as used by `not template_config[key]` and `if results`
Truthy(val) ==
    CASE val.t = "none" -> FALSE
      [] val.t = "int" -> val.v[1] # 0
      [] OTHER -> Len(val.v) > 0

\* entry[1:] : slicing never raises, an empty tuple stays empty
PySlice1(s) == IF Len(s) = 0 THEN <<>> ELSE Tail(s)

RECURSIVE Escape(_, _)
Escape(s, q) ==
    IF Len(s) = 0 THEN <<>>
    ELSE (IF Head(s) = q \/ Head(s) = "\\" THEN <<"\\", Head(s)>> ELSE <<Head(s)>>)
         \o Escape(Tail(s), q)

\* repr() of a str: double quotes only when the text holds ' and no "
PyRepr(s) ==
    LET q == IF "'" \in Range(s) /\ "\"" \notin Range(s) THEN "\"" ELSE "'"
    IN <<q>> \o Escape(s, q) \o <<q>>

RECURSIVE ReprItems(_)
ReprItems(pairs) ==
    IF Len(pairs) = 0 THEN <<>>
    ELSE PyRepr(pairs[1][1]) \o <<":", " ">> \o PyRepr(pairs[1][2])
         \o (IF Len(pairs) > 1 THEN <<",", " ">> ELSE <<>>)
         \o ReprItems(Tail(pairs))

\* str(value) of a dict
StrOfDict(pairs) == <<"{">> \o ReprItems(pairs) \o <<"}">>

\* .replace("'", '"')
ReplaceQuotes(s) == [i \in 1..Len(s) |-> IF s[i] = "'" THEN "\"" ELSE s[i]]

\* f"{guild_id}" of a non-negative int, and the engine reading the literal back
DigitChars == <<"0", "1", "2", "3", "4", "5", "6", "7", "8", "9">>

RECURSIVE FormatInt(_)
FormatInt(n) ==
    IF n < 10 THEN <<DigitChars[n + 1]>>
    ELSE FormatInt(n \div 10) \o <<DigitChars[(n % 10) + 1]>>

DigitOf(c) == CHOOSE d \in 0..9 : DigitChars[d + 1] = c

RECURSIVE ParseInt(_)
ParseInt(s) ==
    IF Len(s) = 1 THEN DigitOf(s[1])
    ELSE 10 * ParseInt(SubSeq(s, 1, Len(s) - 1)) + DigitOf(s[Len(s)])

LowerChar(c) == IF c = "A" THEN "a" ELSE IF c = "X" THEN "x" ELSE c

\* SQL LOWER() of a text value
Lower(val) == IF val.t = "str" THEN PyStr([i \in 1..Len(val.v) |-> LowerChar(val.v[i])]) ELSE val

----------------------------------------------------------------------------
(* State *)

VARIABLES
    schema,      \* table -> column names in catalog order (information_schema)
    db,          \* table -> committed rows, in storage order
    connOpen,    \* self.conn is open
    cursorOpen,  \* self.cursor is open
    scope,       \* "none" | "with" | "plain" | "exited" | "unwound" (left by an exception)
    closed,      \* close() has run on the current handler
    ret,         \* the last call: operation, arguments, outcome
    lastAdd,     \* the last row a direct _add inserted
    lastCfg,     \* the last add_server_config for a guild that had no row
    cacheIns,    \* <<guild, team>> -> rows update_sheet_cache inserted for it
    cacheDone,   \* pairs for which update_sheet_cache has returned
    pc,          \* caller -> position in _search (0: not in a call)
    sargs,       \* caller -> arguments of its _search
    cursor,      \* result set pending on the shared cursor
    data,        \* caller -> rows its fetchall at line 198 returned
    flds,        \* caller -> rows its fetchall at line 190 returned
    got,         \* caller -> statement whose result set line 198 fetched
    sret,        \* caller -> what its _search returned
    calls        \* number of _search calls started by the callers

vars == <<schema, db, connOpen, cursorOpen, scope, closed, ret, lastAdd, lastCfg,
          cacheIns, cacheDone, pc, sargs, cursor, data, flds, got, sret, calls>>

storeVars == <<connOpen, cursorOpen, scope, closed, ret, lastAdd, lastCfg,
               cacheIns, cacheDone>>

stepVars == <<pc, sargs, cursor, data, flds, got, sret, calls>>

Tables == {"server_config", "cache"}

ServerConfigColumns == <<"server_id", "prefix", "log_channel">>

\* the cache table, with server_id leading or behind a serial id column
CacheSchemas == {<<"server_id", "team_name", "players", "last_saved">>,
                 <<"id", "server_id", "team_name", "players", "last_saved">>}

----------------------------------------------------------------------------
(* Return values: a list of dictionaries, one dictionary, or None *)

RetList(items) == [kind |-> "list", items |-> items]
RetDict(d) == [kind |-> "dict", items |-> <<d>>]
RetNone == [kind |-> "None", items |-> <<>>]

\* `if x:` on a returned dictionary or list
RetTruthy(r) ==
    CASE r.kind = "dict" -> DOMAIN r.items[1] # {}
      [] r.kind = "list" -> Len(r.items) > 0
      [] OTHER -> FALSE

Ok(newdb, out) == [err |-> "", db |-> newdb, out |-> out]
Raise(e) == [err |-> e, db |-> db, out |-> RetNone]

EmptyDict == [k \in {} |-> PyNone]

----------------------------------------------------------------------------
(* The database engine behind cursor.execute *)

IndexOf(cols, name) == CHOOSE i \in 1..Len(cols) : cols[i] = name

\* WHERE f = %s  /  WHERE LOWER(f) = LOWER(%s); NULL equals nothing
WhereHolds(row, cols, check, value) ==
    LET cell == row[IndexOf(cols, check.field)]
    IN /\ cell.t # "none"
       /\ value.t # "none"
       /\ IF check.lower THEN Lower(cell) = Lower(value) ELSE cell = value

\* AND server_id = '<literal>' : the quoted literal is read as the column's int
ExtraHolds(row, cols, extra) ==
    \A i \in 1..Len(extra) :
        LET cell == row[IndexOf(cols, extra[i].field)]
        IN cell.t = "int" /\ cell.v[1] = ParseInt(extra[i].literal)

\* indices of the rows SELECT * FROM table <check> <extra> returns
MatchIdx(table, check, value, extra) ==
    {i \in 1..Len(db[table]) :
        /\ WhereHolds(db[table][i], schema[table], check, value)
        /\ ExtraHolds(db[table][i], schema[table], extra)}

SelectRows(table, check, value, extra) ==
    LET Hit(row) == /\ WhereHolds(row, schema[table], check, value)
                    /\ ExtraHolds(row, schema[table], extra)
    IN SelectSeq(db[table], Hit)

\* SELECT column_name FROM information_schema.columns WHERE table_name = ...
Catalog(table) == [i \in 1..Len(schema[table]) |-> <<K(schema[table][i])>>]

\* value of a column the INSERT does not name
DefaultOf(table, col) == IF col = "id" THEN PyInt(Len(db[table]) + 1) ELSE PyNone

InsertRow(table, d) ==
    LET cols == schema[table]
    IN [i \in 1..Len(cols) |->
            IF K(cols[i]) \in DOMAIN d THEN d[K(cols[i])] ELSE DefaultOf(table, cols[i])]

\* SET c = %s, c = %s ... : the only assignment list the engine parses
IsSetClause(toks) ==
    /\ Len(toks) >= 4
    /\ Len(toks) % 4 = 0
    /\ toks[1] = "SET"
    /\ \A j \in 0..((Len(toks) \div 4) - 1) :
          /\ toks[4 * j + 3] = "="
          /\ toks[4 * j + 4] = "%s"
          /\ (j > 0 => toks[4 * j + 1] = ",")

CountOf(tok, toks) == Cardinality({i \in 1..Len(toks) : toks[i] = tok})

UpdatedRow(row, cols, toks, values) ==
    [i \in 1..Len(cols) |->
        IF \E j \in 0..((Len(toks) \div 4) - 1) : toks[4 * j + 2] = cols[i]
        THEN values[1 + CHOOSE j \in 0..((Len(toks) \div 4) - 1) : toks[4 * j + 2] = cols[i]]
        ELSE row[i]]

----------------------------------------------------------------------------
(* dbhandler.py: module functions and DBHandler methods *)

\* dictify(data, fields): formatted_data[key] = data[i]; a later key overwrites
dictify(row, fields) ==
    [k \in Range(fields) |->
        row[CHOOSE i \in 1..Len(fields) :
                /\ fields[i] = k
                /\ \A j \in 1..Len(fields) : fields[j] = k => j <= i]]

\* data[i] past the end of the tuple raises IndexError
DictifyRaises(row, fields) == Len(fields) > Len(row)

get_check(field_name, case_sensitive) ==
    [field |-> field_name, lower |-> ~case_sensitive]

server_id_check(guild_id) ==
    <<[field |-> "server_id", literal |-> FormatInt(guild_id)]>>

_get_table_fields_untrimmed(fetched) == [i \in 1..Len(fetched) |-> fetched[i][1]]

\* lines 190-195, applied to the rows the catalog query's fetchall returned
_get_table_fields(fetched) ==
    LET fields == [i \in 1..Len(fetched) |-> fetched[i][1]]
    IN IF K("server_id") \in Range(fields) THEN PySlice1(fields) ELSE fields

\* lines 201-207, applied to the fetched rows and the field list
_format_sql_data(rows, fields) ==
    IF Len(rows) = 0 THEN [err |-> "", items |-> <<>>]
    ELSE IF \E i \in 1..Len(rows) : DictifyRaises(PySlice1(rows[i]), fields)
         THEN [err |-> "IndexError", items |-> <<>>]
         ELSE [err |-> "",
               items |-> [i \in 1..Len(rows) |-> dictify(PySlice1(rows[i]), fields)]]

SearchReturnLast(results, all_results) ==
    IF Len(results) > 0
    THEN IF all_results THEN RetList(results) ELSE RetDict(results[Len(results)])
    ELSE RetList(results)

\* lines 63-68
SearchReturn(results, all_results) ==
    IF Len(results) > 0
    THEN IF all_results THEN RetList(results) ELSE RetDict(results[1])
    ELSE RetList(results)

\* _search run without interruption on an open cursor
_search(table_name, field_name, value, case_sensitive, extra_query, all_results) ==
    LET check == get_check(field_name, case_sensitive)
        rows == SelectRows(table_name, check, value, extra_query)
        fields == _get_table_fields(Catalog(table_name))
        results == _format_sql_data(rows, fields)
    IN IF results.err # "" THEN Raise(results.err)
       ELSE Ok(db, SearchReturn(results.items, all_results))

RECURSIVE KeysInOrder(_)
KeysInOrder(S) ==
    IF S = {} THEN <<>>
    ELSE LET k == CHOOSE x \in S : TRUE IN <<k>> \o KeysInOrder(S \ {k})

RECURSIVE JoinAnd(_)
JoinAnd(keys) ==
    IF Len(keys) = 0 THEN <<>>
    ELSE IF Len(keys) = 1 THEN <<keys[1].v[1]>>
    ELSE <<keys[1].v[1], "AND">> \o JoinAnd(Tail(keys))

\* cursor.execute of the UPDATE statement of lines 84-88, then commit
ExecuteUpdate(table_name, update_string, check, extra_query, update_values) ==
    IF CountOf("%s", update_string) + 1 # Len(update_values)
    THEN Raise("TypeError")
    ELSE IF ~IsSetClause(update_string)
    THEN Raise("SyntaxError")
    ELSE LET hit == MatchIdx(table_name, check, update_values[Len(update_values)],
                             extra_query)
         IN Ok([db EXCEPT ![table_name] =
                    [i \in 1..Len(@) |->
                        IF i \in hit
                        THEN UpdatedRow(@[i], schema[table_name], update_string,
                                        update_values)
                        ELSE @[i]]],
               RetNone)

_update_many(table_name, check_field, check_value, updates, case_sensitive, extra_query) ==
    LET check == get_check(check_field, case_sensitive)
        update_fields == KeysInOrder(DOMAIN updates)
        update_values == [i \in 1..Len(update_fields) |-> updates[update_fields[i]]]
                         \o <<check_value>>
        update_string == JoinAnd(update_fields)
    IN ExecuteUpdate(table_name, update_string, check, extra_query, update_values)

_update(table_name, check_field, check_value, update_field, update_value, case_sensitive, extra_query) ==
    _update_many(table_name, check_field, check_value,
                 [k \in {update_field} |-> update_value], case_sensitive, extra_query)

EncodeValueNoReplace(val) ==
    IF val.t = "dict" THEN PyStr(StrOfDict(val.v)) ELSE val

\* the value _add binds for one given value (lines 106-110)
EncodeValue(val) ==
    IF val.t = "dict" THEN PyStr(ReplaceQuotes(StrOfDict(val.v))) ELSE val

\* given_values is what the caller passes: a dictionary, or the empty list
\* _get_template_config hands over when there is no template row
_add(table_name, guild_id, given_values) ==
    IF given_values.kind # "dict" THEN Raise("TypeError")
    ELSE LET given == given_values.items[1]
             keys == DOMAIN given \cup {K("server_id")}
             bound == [k \in keys |->
                          IF k = K("server_id") THEN PyInt(guild_id)
                          ELSE EncodeValue(given[k])]
         IN IF \E k \in keys : k \notin {K(c) : c \in Range(schema[table_name])}
            THEN Raise("UndefinedColumn")
            ELSE Ok([db EXCEPT ![table_name] = Append(@, InsertRow(table_name, bound))],
                    RetNone)

get_server_config(server_id) ==
    _search("server_config", "server_id", PyInt(server_id), TRUE, <<>>, FALSE)

_get_template_config_unpruned == get_server_config(0)

\* the template with its falsy entries deleted; the empty list stays a list
_get_template_config ==
    LET template_config == get_server_config(0)
    IN IF template_config.err # "" THEN template_config
       ELSE IF template_config.out.kind # "dict" THEN template_config
       ELSE LET d == template_config.out.items[1]
                empty_keys == {key \in DOMAIN d : ~Truthy(d[key])}
            IN Ok(db, RetDict([key \in DOMAIN d \ empty_keys |-> d[key]]))

add_server_config(server_id) ==
    LET template == _get_template_config
    IN IF template.err # "" THEN template
       ELSE _add("server_config", server_id, template.out)

update_server_config(server_id, key, value) ==
    _update("server_config", "server_id", PyInt(server_id), key, value, TRUE, <<>>)

\* loaded: whether rebuilding Player / WeekSchedule objects from the row succeeds
get_sheet_cache(server_id, team_name, loaded) ==
    LET cache == _search("cache", "team_name", team_name, TRUE,
                         server_id_check(server_id), FALSE)
    IN IF cache.err # "" THEN cache
       ELSE IF RetTruthy(cache.out)
            THEN IF loaded
                 THEN Ok(db, RetDict([k \in {K("last_saved")} |->
                                         cache.out.items[1][K("last_saved")]]))
                 ELSE Raise("KeyError")
            ELSE Ok(db, RetNone)

update_sheet_cache(server_id, team_name, key, value, last_saved) ==
    LET id_check == server_id_check(server_id)
        found == _search("cache", "team_name", team_name, TRUE, id_check, FALSE)
        row == [k \in {key, K("last_saved")} |->
                   IF k = key THEN value ELSE last_saved]
    IN IF found.err # "" THEN found
       ELSE IF ~RetTruthy(found.out)
            THEN _add("cache", server_id, RetDict(row))
            ELSE _update_many("cache", "team_name", team_name, row, TRUE, id_check)

\* close(): cursor.close() then conn.close()
close == [cursor |-> FALSE, conn |-> FALSE]

exitOnSuccessOnly(exc) == IF exc THEN [cursor |-> cursorOpen, conn |-> connOpen] ELSE close

\* __exit__(exc_type, exc_val, exc_tb): close() whatever the exception
__exit__(exc) == close

----------------------------------------------------------------------------
(* Inputs *)

\* guild ids; 0 is the id of the template row
Guilds == {0, 1, 2}

TeamA == PyStr(<<"a">>)
TeamUpperA == PyStr(<<"A">>)
Bang == PyStr(<<"!">>)
Now == PyStr(<<"t">>)
Earlier == PyStr(<<"s">>)

PlainPlayers == PyDict(<< <<(<<"a">>), (<<"x">>)>> >>)
QuotePlayers == PyDict(<< <<(<<"a">>), (<<"'">>)>> >>)
BothQuotesPlayers == PyDict(<< <<(<<"x">>), (<<"'", "\"">>)>> >>)

\* dictionaries handed to _add for the cache table
CacheGiven ==
    {[k \in {K("team_name"), K("players")} |->
         IF k = K("team_name") THEN TeamA ELSE PlainPlayers],
     [k \in {K("team_name"), K("players")} |->
         IF k = K("team_name") THEN TeamUpperA ELSE QuotePlayers],
     [k \in {K("players"), K("last_saved")} |->
         IF k = K("players") THEN BothQuotesPlayers ELSE PyNone]}

\* rows of server_config before the bot runs: the template row (server_id 0)
Templates ==
    {<<PyInt(0), Bang, PyNone>>,
     <<PyInt(0), Bang, PyInt(5)>>,
     <<PyInt(0), PyStr(<<>>), PyInt(0)>>,
     <<PyInt(0), PyNone, PyNone>>}

\* a cache row written before the bot runs, team_name filled in
StoredCacheRow(cols) ==
    [i \in 1..Len(cols) |->
        CASE cols[i] = "id" -> PyInt(1)
          [] cols[i] = "server_id" -> PyInt(1)
          [] cols[i] = "team_name" -> TeamA
          [] cols[i] = "players" -> PyStr(<<"{", "}">>)
          [] OTHER -> Earlier]

SearchInputs ==
    [table : {"cache"}, field : {"server_id"},
     value : {PyInt(g) : g \in Guilds \ {0}}, cs : {TRUE}, extra : {<<>>}]
    \cup
    [table : {"cache"}, field : {"team_name"},
     value : {TeamA, TeamUpperA}, cs : BOOLEAN,
     extra : {<<>>, server_id_check(1)}]

UpdateInputs ==
    [table : {"cache"}, field : {"team_name"}, value : {TeamA}, cs : BOOLEAN,
     extra : {server_id_check(1)}]

Args(table, field, value, cs, extra, all, guild, given) ==
    [table |-> table, field |-> field, value |-> value, cs |-> cs, extra |-> extra,
     all |-> all, guild |-> guild, given |-> <<given>>]

NoArgs == Args("", "", PyNone, TRUE, <<>>, FALSE, 0, EmptyDict)

NoRet == [op |-> "", a |-> NoArgs, err |-> "", out |-> RetNone, zero |-> FALSE, hit |-> {}]

NoAdd == [table |-> "", guild |-> 0, given |-> <<EmptyDict>>, idx |-> 0]

NoCfg == [guild |-> 0, template |-> <<>>]

CachePairs == (Guilds \ {0}) \X {TeamA}

----------------------------------------------------------------------------
(* Calls on the handler *)

\* A call on a closed cursor raises at its first cursor.execute
Returned(op, a, res, zero, hit) ==
    LET r == IF cursorOpen THEN res ELSE Raise("InterfaceError")
    IN /\ db' = r.db
       /\ ret' = [op |-> op, a |-> a, err |-> r.err, out |-> r.out,
                  zero |-> cursorOpen /\ zero, hit |-> IF cursorOpen THEN hit ELSE {}]

Search ==
    \E in \in SearchInputs, all \in BOOLEAN :
        /\ scope # "none"
        /\ Returned("_search",
                    Args(in.table, in.field, in.value, in.cs, in.extra, all, 0, EmptyDict),
                    _search(in.table, in.field, in.value, in.cs, in.extra, all),
                    SelectRows(in.table, get_check(in.field, in.cs), in.value, in.extra) = <<>>,
                    MatchIdx(in.table, get_check(in.field, in.cs), in.value, in.extra))
        /\ UNCHANGED <<schema, connOpen, cursorOpen, scope, closed, lastAdd, lastCfg,
                       cacheIns, cacheDone>>
        /\ UNCHANGED stepVars

Add ==
    \E guild \in Guilds \ {0}, given \in CacheGiven :
        LET res == _add("cache", guild, RetDict(given))
        IN /\ scope # "none"
           /\ Len(db["cache"]) < MaxRows
           /\ Returned("_add", Args("cache", "", PyNone, TRUE, <<>>, FALSE, guild, given),
                       res, FALSE, {})
           /\ lastAdd' = IF cursorOpen /\ res.err = ""
                         THEN [table |-> "cache", guild |-> guild, given |-> <<given>>,
                               idx |-> Len(db["cache"]) + 1]
                         ELSE lastAdd
           /\ UNCHANGED <<schema, connOpen, cursorOpen, scope, closed, lastCfg,
                          cacheIns, cacheDone>>
           /\ UNCHANGED stepVars

CacheUpdates ==
    {[k \in {K("players")} |-> PlainPlayers],
     [k \in {K("players"), K("last_saved")} |->
         IF k = K("players") THEN PlainPlayers ELSE Now],
     EmptyDict}

UpdateMany ==
    \E in \in UpdateInputs, updates \in CacheUpdates :
        /\ scope # "none"
        /\ Returned("_update_many",
                    Args(in.table, in.field, in.value, in.cs, in.extra, FALSE, 0, updates),
                    _update_many(in.table, in.field, in.value, updates, in.cs, in.extra),
                    FALSE,
                    MatchIdx(in.table, get_check(in.field, in.cs), in.value, in.extra))
        /\ UNCHANGED <<schema, connOpen, cursorOpen, scope, closed, lastAdd, lastCfg,
                       cacheIns, cacheDone>>
        /\ UNCHANGED stepVars

Update ==
    \E in \in UpdateInputs, value \in {Now} :
        /\ scope # "none"
        /\ Returned("_update",
                    Args(in.table, in.field, in.value, in.cs, in.extra, FALSE, 0,
                         [k \in {K("last_saved")} |-> value]),
                    _update(in.table, in.field, in.value, K("last_saved"), value,
                            in.cs, in.extra),
                    FALSE,
                    MatchIdx(in.table, get_check(in.field, in.cs), in.value, in.extra))
        /\ UNCHANGED <<schema, connOpen, cursorOpen, scope, closed, lastAdd, lastCfg,
                       cacheIns, cacheDone>>
        /\ UNCHANGED stepVars

GetSheetCache ==
    \E guild \in Guilds \ {0}, team \in {TeamA}, loaded \in BOOLEAN :
        /\ scope # "none"
        /\ Returned("get_sheet_cache",
                    Args("cache", "team_name", team, TRUE, server_id_check(guild), FALSE,
                         guild, EmptyDict),
                    get_sheet_cache(guild, team, loaded),
                    SelectRows("cache", get_check("team_name", TRUE), team,
                               server_id_check(guild)) = <<>>,
                    {})
        /\ UNCHANGED <<schema, connOpen, cursorOpen, scope, closed, lastAdd, lastCfg,
                       cacheIns, cacheDone>>
        /\ UNCHANGED stepVars

UpdateSheetCache ==
    \E p \in CachePairs, value \in {PlainPlayers} :
        LET guild == p[1]
            team == p[2]
            res == update_sheet_cache(guild, team, K("players"), value, Now)
            zero == SelectRows("cache", get_check("team_name", TRUE), team,
                               server_id_check(guild)) = <<>>
        IN /\ scope # "none"
           /\ Len(db["cache"]) < MaxRows
           /\ Returned("update_sheet_cache",
                       Args("cache", "team_name", team, TRUE, server_id_check(guild), FALSE,
                            guild, [k \in {K("players")} |-> value]),
                       res, zero, {})
           /\ cacheIns' = IF cursorOpen /\ res.err = ""
                          THEN [cacheIns EXCEPT ![p] = @ + Len(res.db["cache"])
                                                         - Len(db["cache"])]
                          ELSE cacheIns
           /\ cacheDone' = IF cursorOpen /\ res.err = "" THEN cacheDone \cup {p}
                           ELSE cacheDone
           /\ UNCHANGED <<schema, connOpen, cursorOpen, scope, closed, lastAdd, lastCfg>>
           /\ UNCHANGED stepVars

GetServerConfig ==
    \E guild \in Guilds :
        /\ scope # "none"
        /\ Returned("get_server_config",
                    Args("server_config", "server_id", PyInt(guild), TRUE, <<>>, FALSE,
                         guild, EmptyDict),
                    get_server_config(guild),
                    SelectRows("server_config", get_check("server_id", TRUE), PyInt(guild),
                               <<>>) = <<>>,
                    {})
        /\ UNCHANGED <<schema, connOpen, cursorOpen, scope, closed, lastAdd, lastCfg,
                       cacheIns, cacheDone>>
        /\ UNCHANGED stepVars

AddServerConfig ==
    \E guild \in Guilds :
        LET res == add_server_config(guild)
            template == get_server_config(0)
            fresh == SelectRows("server_config", get_check("server_id", TRUE),
                                PyInt(guild), <<>>) = <<>>
        IN /\ scope # "none"
           /\ Len(db["server_config"]) < MaxRows
           /\ Returned("add_server_config",
                       Args("server_config", "server_id", PyInt(0), TRUE, <<>>, FALSE,
                            guild, EmptyDict),
                       res,
                       SelectRows("server_config", get_check("server_id", TRUE), PyInt(0),
                                  <<>>) = <<>>,
                       {})
           /\ lastCfg' = IF cursorOpen /\ res.err = "" /\ fresh
                         THEN [guild |-> guild, template |-> template.out.items]
                         ELSE lastCfg
           /\ UNCHANGED <<schema, connOpen, cursorOpen, scope, closed, lastAdd,
                          cacheIns, cacheDone>>
           /\ UNCHANGED stepVars

UpdateServerConfig ==
    \E guild \in Guilds, value \in {PyStr(<<"?">>), PyNone} :
        /\ scope # "none"
        /\ Returned("update_server_config",
                    Args("server_config", "server_id", PyInt(guild), TRUE, <<>>, FALSE,
                         guild, [k \in {K("prefix")} |-> value]),
                    update_server_config(guild, K("prefix"), value),
                    FALSE,
                    MatchIdx("server_config", get_check("server_id", TRUE), PyInt(guild),
                             <<>>))
        /\ UNCHANGED <<schema, connOpen, cursorOpen, scope, closed, lastAdd, lastCfg,
                       cacheIns, cacheDone>>
        /\ UNCHANGED stepVars

\* DBHandler(), alone or as `with DBHandler() as handler:` (__init__, __enter__)
New ==
    \E useWith \in BOOLEAN :
        /\ scope \in {"none", "exited", "unwound"} \/ (scope = "plain" /\ closed)
        /\ connOpen' = TRUE
        /\ cursorOpen' = TRUE
        /\ closed' = FALSE
        /\ scope' = IF useWith THEN "with" ELSE "plain"
        /\ UNCHANGED <<schema, db, ret, lastAdd, lastCfg, cacheIns, cacheDone>>
        /\ UNCHANGED stepVars

\* the with block is left, normally or by an exception: __exit__ runs
ExitWith ==
    \E exc \in BOOLEAN :
        /\ scope = "with"
        /\ cursorOpen' = __exit__(exc).cursor
        /\ connOpen' = __exit__(exc).conn
        /\ closed' = TRUE
        /\ scope' = IF exc THEN "unwound" ELSE "exited"
        /\ UNCHANGED <<schema, db, ret, lastAdd, lastCfg, cacheIns, cacheDone>>
        /\ UNCHANGED stepVars

\* handler.close() called by the user of the handler
Close ==
    /\ scope \in {"with", "plain"}
    /\ cursorOpen' = close.cursor
    /\ connOpen' = close.conn
    /\ closed' = TRUE
    /\ UNCHANGED <<schema, db, scope, ret, lastAdd, lastCfg, cacheIns, cacheDone>>
    /\ UNCHANGED stepVars

----------------------------------------------------------------------------
(* Specifications *)

NoStmt == [by |-> 0, kind |-> "none", a |-> NoArgs]

IdleCallers == [c \in 1..2 |-> 0]

InitIdle ==
    /\ pc = IdleCallers
    /\ sargs = [c \in 1..2 |-> NoArgs]
    /\ cursor = [rows |-> <<>>, stmt |-> NoStmt]
    /\ data = [c \in 1..2 |-> <<>>]
    /\ flds = [c \in 1..2 |-> <<>>]
    /\ got = [c \in 1..2 |-> NoStmt]
    /\ sret = [c \in 1..2 |-> NoRet]
    /\ calls = 0

InitGhost ==
    /\ ret = NoRet
    /\ lastAdd = NoAdd
    /\ lastCfg = NoCfg
    /\ cacheIns = [p \in CachePairs |-> 0]
    /\ cacheDone = {}

\* the primitives and the sheet-cache accessors, on an open handler
Init ==
    /\ \E cols \in CacheSchemas :
          /\ schema = [t \in Tables |->
                          IF t = "cache" THEN cols ELSE ServerConfigColumns]
          /\ \E stored \in {<<>>, <<StoredCacheRow(cols)>>} :
                db = [t \in Tables |-> IF t = "cache" THEN stored ELSE <<>>]
    /\ connOpen = TRUE
    /\ cursorOpen = TRUE
    /\ scope = "with"
    /\ closed = FALSE
    /\ InitGhost
    /\ InitIdle

Next ==
    \/ Search
    \/ Add
    \/ UpdateMany
    \/ Update
    \/ GetSheetCache
    \/ UpdateSheetCache

Spec == Init /\ [][Next]_vars

\* the server-config accessors and the life of the handler
InitConfig ==
    /\ schema = [t \in Tables |->
                    IF t = "cache" THEN <<"server_id", "team_name", "players", "last_saved">>
                    ELSE ServerConfigColumns]
    /\ \E configs \in {<<>>} \cup {<<t>> : t \in Templates} :
          db = [t \in Tables |-> IF t = "cache" THEN <<>> ELSE configs]
    /\ connOpen = FALSE
    /\ cursorOpen = FALSE
    /\ scope = "none"
    /\ closed = FALSE
    /\ InitGhost
    /\ InitIdle

NextConfig ==
    \/ New
    \/ ExitWith
    \/ Close
    \/ GetServerConfig
    \/ AddServerConfig
    \/ UpdateServerConfig

SpecConfig == InitConfig /\ [][NextConfig]_vars

----------------------------------------------------------------------------
(* _search statement by statement on the shared cursor, two callers *)

Callers == {1, 2}

FormatStepsIntrospectFirst == <<"execute_catalog", "fetchall_fields", "fetchall_data">>

\* _format_sql_data: fetchall (198), then _get_table_fields (199): execute, fetchall
FormatSteps == <<"fetchall_data", "execute_catalog", "fetchall_fields">>

\* _search: execute (58-61), _format_sql_data (62), return (63-68)
SearchProgram == <<"execute_select">> \o FormatSteps \o <<"return">>

AtStep(c, name) == pc[c] # 0 /\ SearchProgram[pc[c]] = name

fetchone(cur) == IF Len(cur.rows) = 0 THEN <<>> ELSE <<cur.rows[1]>>

\* cursor.fetchall(): every row still pending on the cursor
fetchall(cur) == cur.rows

\* the cursor once its rows have been fetched
Consumed(cur) == [rows |-> <<>>, stmt |-> [cur.stmt EXCEPT !.kind = "consumed"]]

StepInputs ==
    [table : {"cache"}, field : {"server_id"}, value : {PyInt(1)},
     cs : {TRUE}, extra : {<<>>}]
    \cup
    [table : {"cache"}, field : {"team_name"}, value : {TeamA},
     cs : {TRUE}, extra : {server_id_check(1)}]
    \cup
    [table : {"server_config"}, field : {"server_id"}, value : {PyInt(0), PyInt(2)},
     cs : {TRUE}, extra : {<<>>}]

Begin(c) ==
    \E in \in StepInputs, all \in BOOLEAN :
        /\ pc[c] = 0
        /\ calls < MaxCalls
        /\ calls' = calls + 1
        /\ pc' = [pc EXCEPT ![c] = 1]
        /\ sargs' = [sargs EXCEPT ![c] =
                        Args(in.table, in.field, in.value, in.cs, in.extra, all, 0, EmptyDict)]
        /\ data' = [data EXCEPT ![c] = <<>>]
        /\ flds' = [flds EXCEPT ![c] = <<>>]
        /\ got' = [got EXCEPT ![c] = NoStmt]
        /\ sret' = [sret EXCEPT ![c] = NoRet]
        /\ UNCHANGED <<schema, db, cursor>>
        /\ UNCHANGED storeVars

\* a call starts only when no other call is under way
CallSerial == \E c \in Callers : (\A d \in Callers : pc[d] = 0) /\ Begin(c)

\* a call starts whatever the other caller is doing
CallConcurrent == \E c \in Callers : Begin(c)

ExecuteSelect ==
    \E c \in Callers :
        /\ AtStep(c, "execute_select")
        /\ cursor' = [rows |-> SelectRows(sargs[c].table,
                                          get_check(sargs[c].field, sargs[c].cs),
                                          sargs[c].value, sargs[c].extra),
                      stmt |-> [by |-> c, kind |-> "select", a |-> sargs[c]]]
        /\ pc' = [pc EXCEPT ![c] = @ + 1]
        /\ UNCHANGED <<schema, db, sargs, data, flds, got, sret, calls>>
        /\ UNCHANGED storeVars

FetchallData ==
    \E c \in Callers :
        /\ AtStep(c, "fetchall_data")
        /\ data' = [data EXCEPT ![c] = fetchall(cursor)]
        /\ got' = [got EXCEPT ![c] = cursor.stmt]
        /\ cursor' = Consumed(cursor)
        /\ pc' = [pc EXCEPT ![c] = @ + 1]
        /\ UNCHANGED <<schema, db, sargs, flds, sret, calls>>
        /\ UNCHANGED storeVars

ExecuteCatalog ==
    \E c \in Callers :
        /\ AtStep(c, "execute_catalog")
        /\ cursor' = [rows |-> Catalog(sargs[c].table),
                      stmt |-> [by |-> c, kind |-> "catalog", a |-> sargs[c]]]
        /\ pc' = [pc EXCEPT ![c] = @ + 1]
        /\ UNCHANGED <<schema, db, sargs, data, flds, got, sret, calls>>
        /\ UNCHANGED storeVars

FetchallFields ==
    \E c \in Callers :
        /\ AtStep(c, "fetchall_fields")
        /\ flds' = [flds EXCEPT ![c] = fetchall(cursor)]
        /\ cursor' = Consumed(cursor)
        /\ pc' = [pc EXCEPT ![c] = @ + 1]
        /\ UNCHANGED <<schema, db, sargs, data, got, sret, calls>>
        /\ UNCHANGED storeVars

Return ==
    \E c \in Callers :
        LET results == _format_sql_data(data[c], _get_table_fields(flds[c]))
        IN /\ AtStep(c, "return")
           /\ sret' = [sret EXCEPT ![c] =
                          [op |-> "_search", a |-> sargs[c], err |-> results.err,
                           out |-> IF results.err = ""
                                   THEN SearchReturn(results.items, sargs[c].all)
                                   ELSE RetNone,
                           zero |-> Len(data[c]) = 0, hit |-> {}]]
           /\ pc' = [pc EXCEPT ![c] = 0]
           /\ UNCHANGED <<schema, db, sargs, cursor, data, flds, got, calls>>
           /\ UNCHANGED storeVars

StoredCacheRows(cols) ==
    <<StoredCacheRow(cols),
      [i \in 1..Len(cols) |->
          CASE cols[i] = "id" -> PyInt(2)
            [] cols[i] = "team_name" -> TeamUpperA
            [] OTHER -> StoredCacheRow(cols)[i]]>>

InitSteps ==
    /\ \E cols \in CacheSchemas :
          /\ schema = [t \in Tables |->
                          IF t = "cache" THEN cols ELSE ServerConfigColumns]
          /\ db = [tb \in Tables |->
                      IF tb = "cache" THEN StoredCacheRows(cols)
                      ELSE << <<PyInt(0), Bang, PyNone>> >>]
    /\ connOpen = TRUE
    /\ cursorOpen = TRUE
    /\ scope = "with"
    /\ closed = FALSE
    /\ InitGhost
    /\ InitIdle

NextSerial ==
    \/ CallSerial
    \/ ExecuteSelect
    \/ FetchallData
    \/ ExecuteCatalog
    \/ FetchallFields
    \/ Return

SpecSerial == InitSteps /\ [][NextSerial]_vars

NextConcurrent ==
    \/ CallConcurrent
    \/ ExecuteSelect
    \/ FetchallData
    \/ ExecuteCatalog
    \/ FetchallFields
    \/ Return

SpecConcurrent == InitSteps /\ [][NextConcurrent]_vars

----------------------------------------------------------------------------
(* Properties *)

SearchedRows(a) == SelectRows(a.table, get_check(a.field, a.cs), a.value, a.extra)

AllResults(a) == _search(a.table, a.field, a.value, a.cs, a.extra, TRUE).out.items

\* C1: a search with all_results false returns the first element of what the
\* same search returns with all_results true, and both return the empty list
\* when no row matches.
C1_FirstOfAll ==
    (ret.op = "_search" /\ ret.err = "") =>
        /\ Len(SearchedRows(ret.a)) = 0 => ret.out = RetList(<<>>)
        /\ (Len(SearchedRows(ret.a)) > 0 /\ ~ret.a.all) =>
               ret.out = RetDict(AllResults(ret.a)[1])
        /\ (Len(SearchedRows(ret.a)) > 0 /\ ret.a.all) =>
               ret.out = RetList(AllResults(ret.a))

C1_Witness ==
    /\ ret.op = "_search"
    /\ ~ret.a.all
    /\ Len(AllResults(ret.a)) >= 2
    /\ AllResults(ret.a)[1] # AllResults(ret.a)[2]
    /\ ret.out = RetDict(AllResults(ret.a)[1])

\* C2: a search on an open cursor yields dictionaries that have no key for
\* the table's leading column and pair every other column name with the
\* value the row holds in that column.
C2_LeadingColumnDropped ==
    (ret.op = "_search" /\ ret.err # "InterfaceError") =>
        /\ ret.err = ""
        /\ Len(ret.out.items) = (IF ret.a.all \/ Len(SearchedRows(ret.a)) = 0
                                 THEN Len(SearchedRows(ret.a)) ELSE 1)
        /\ \A i \in 1..Len(ret.out.items) :
              LET d == ret.out.items[i]
                  row == SearchedRows(ret.a)[i]
                  cols == schema[ret.a.table]
              IN /\ K(cols[1]) \notin DOMAIN d
                 /\ DOMAIN d = {K(cols[j]) : j \in 2..Len(cols)}
                 /\ \A j \in 2..Len(cols) : d[K(cols[j])] = row[j]

C2_Witness ==
    /\ ret.op = "_search"
    /\ ret.err = ""
    /\ schema[ret.a.table][1] = "id"
    /\ Len(ret.out.items) >= 2
    /\ K("server_id") \in DOMAIN ret.out.items[1]
    /\ K("id") \notin DOMAIN ret.out.items[1]

\* what a value given to _add reads as afterwards: a mapping as its str() text
\* with every ' turned into " and every other character kept, anything else as is
ComesBackAs(val, cell) ==
    IF val.t = "dict"
    THEN /\ cell.t = "str"
         /\ Len(cell.v) = Len(StrOfDict(val.v))
         /\ \A i \in 1..Len(cell.v) :
               cell.v[i] = IF StrOfDict(val.v)[i] = "'" THEN "\"" ELSE StrOfDict(val.v)[i]
    ELSE cell = val

\* C3: after _add, a search whose only match is the added row returns a
\* dictionary holding every given field with the given value, a mapping as
\* its quote-substituted text.
C3_AddThenSearch ==
    (/\ ret.op = "_search"
     /\ ret.err = ""
     /\ lastAdd.idx > 0
     /\ ret.a.table = lastAdd.table
     /\ ret.hit = {lastAdd.idx}) =>
        /\ Len(ret.out.items) = 1
        /\ \A k \in DOMAIN lastAdd.given[1] :
              /\ k \in DOMAIN ret.out.items[1]
              /\ ComesBackAs(lastAdd.given[1][k], ret.out.items[1][k])

C3_Witness ==
    /\ ret.op = "_search"
    /\ ret.err = ""
    /\ lastAdd.idx > 0
    /\ ret.hit = {lastAdd.idx}
    /\ lastAdd.given[1][K("players")] = QuotePlayers
    /\ ret.out.items[1][K("players")] =
           PyStr(<<"{", "\"", "a", "\"", ":", " ", "\"", "\"", "\"", "}">>)
    /\ ret.out.items[1][K("team_name")] = TeamUpperA

\* C4: after _update_many / _update on rows their check matches, a search
\* with the same check returns those rows with every updated field at its
\* new value.
C4_UpdateThenSearch ==
    (/\ ret.op \in {"_update_many", "_update"}
     /\ ret.hit # {}
     /\ DOMAIN ret.a.given[1] # {}) =>
        /\ ret.err = ""
        /\ \A i \in 1..Len(AllResults(ret.a)) :
              \A k \in DOMAIN ret.a.given[1] :
                  AllResults(ret.a)[i][k] = ret.a.given[1][k]

PrunedTemplate(t) == [k \in {x \in DOMAIN t : Truthy(t[x])} |-> t[k]]

FreshConfigRead ==
    /\ ret.op = "get_server_config"
    /\ ret.err = ""
    /\ Len(lastCfg.template) = 1
    /\ ret.a.guild = lastCfg.guild

\* C5 as stated: add_server_config(g) for a guild without a row, then
\* get_server_config(g), returns exactly the template's non-empty fields.
C5_ExactlyNonEmptyFields ==
    FreshConfigRead => ret.out = RetDict(PrunedTemplate(lastCfg.template[1]))

\* C5 as amended: the dictionary has a key for every column of server_config
\* but the leading server_id; a field that is non-empty in the template holds
\* the template's value, a field that is empty in the template holds None.
C5_TemplateDefaults ==
    FreshConfigRead =>
        /\ ret.out.kind = "dict"
        /\ LET d == ret.out.items[1]
               t == lastCfg.template[1]
           IN /\ DOMAIN d = {K(ServerConfigColumns[j]) : j \in 2..Len(ServerConfigColumns)}
              /\ K("server_id") \notin DOMAIN d
              /\ \A k \in DOMAIN d : d[k] = IF Truthy(t[k]) THEN t[k] ELSE PyNone

C5_Witness ==
    /\ FreshConfigRead
    /\ lastCfg.guild # 0
    /\ lastCfg.template[1][K("prefix")] = PyStr(<<>>)
    /\ lastCfg.template[1][K("log_channel")] = PyInt(0)
    /\ ret.out = RetDict([k \in {K("prefix"), K("log_channel")} |-> PyNone])

\* C6: an operation whose search matched no row raises no error.
C6_EmptyIsNotAnError == ret.zero => ret.err = ""

\* C7: once the with block is left, normally or by an exception, or close()
\* has run, neither the cursor nor the connection is open.
C7_Released ==
    (scope \in {"exited", "unwound"} \/ closed) => (~cursorOpen /\ ~connOpen)

C7_Witness ==
    /\ scope = "unwound"
    /\ ret.op = "add_server_config"
    /\ ret.err = "TypeError"
    /\ ~cursorOpen
    /\ ~connOpen

Executed(c, name) == \E i \in 1..Len(SearchProgram) :
                         /\ SearchProgram[i] = name
                         /\ pc[c] > i

\* C8: with calls serialized, the catalog query of a call is executed only
\* after the call has fetched the complete result of its own SELECT, and the
\* call returns the dictionaries of those rows.
C8_FetchBeforeIntrospect ==
    \A c \in Callers :
        /\ Executed(c, "execute_catalog") =>
              /\ got[c] = [by |-> c, kind |-> "select", a |-> sargs[c]]
              /\ data[c] = SearchedRows(sargs[c])
        /\ sret[c].op = "_search" =>
              /\ sret[c].err = ""
              /\ sret[c].out = _search(sargs[c].table, sargs[c].field, sargs[c].value,
                                       sargs[c].cs, sargs[c].extra, sargs[c].all).out

C8_Witness ==
    \E c \in Callers :
        /\ AtStep(c, "fetchall_fields")
        /\ Len(data[c]) = 2
        /\ cursor.stmt.kind = "catalog"
        /\ cursor.rows = Catalog(sargs[c].table)

\* rows the statement produced when it was executed
ResultOf(stmt) ==
    CASE stmt.kind = "select" -> SearchedRows(stmt.a)
      [] stmt.kind = "catalog" -> Catalog(stmt.a.table)
      [] OTHER -> <<>>

\* C9: without serialization a fetch returns the whole pending result set of
\* the statement last executed on the shared cursor, whichever caller issued
\* it; nothing keeps a second statement from replacing a pending one.
C9_FetchTakesPendingResult ==
    /\ cursor.rows = ResultOf(cursor.stmt)
    /\ \A c \in Callers : Executed(c, "fetchall_data") => data[c] = ResultOf(got[c])

\* a caller got the rows of the other caller's SELECT and returned them
C9_Witness ==
    \E c \in Callers :
        /\ sret[c].op = "_search"
        /\ got[c].by # c
        /\ got[c].kind = "select"
        /\ got[c].a.table # sargs[c].table
        /\ Len(data[c]) > 0
        /\ data[c] # SearchedRows(sargs[c])
        /\ sret[c].out # _search(sargs[c].table, sargs[c].field, sargs[c].value,
                                 sargs[c].cs, sargs[c].extra, sargs[c].all).out

\* C10: update_sheet_cache leaves at most one row per (server_id, team_name):
\* the row the first call inserted is found by the search on team_name and
\* server_id, and no later call inserts another.
C10_OneRowPerTeam ==
    \A p \in cacheDone :
        /\ cacheIns[p] <= 1
        /\ Len(SelectRows("cache", get_check("team_name", TRUE), p[2],
                          server_id_check(p[1]))) = 1

====
